---- MODULE Spec2Model ----
(***************************************************************************)
(* The barcode generator: batch generation, combined-document assembly,    *)
(* single-item generation, the settings and the reading of the input file  *)
(* (src/src/try.py, BarcodeGeneratorFrame), and the generator class of     *)
(* src/src/logic/barcode_generator.py.                                     *)
(*                                                                         *)
(* Strings are sequences of one-character strings, so that slicing,        *)
(* filtering and stripping are computed as the Python code computes them.  *)
(* A file is identified by its name inside the output directory.           *)
(* Lengths on the page are in units of 1/127 point: reportlab's A4 is      *)
(* (210*72/25.4, 297*72/25.4) points, which is (75600/127, 106920/127).    *)
(***************************************************************************)
EXTENDS Integers, Sequences, FiniteSets, TLC

(* ----------------------------- bounds --------------------------------- *)

\* longest input list of an individual-output run
MaxItems == 3
\* longest input list handed to the combined-document assembler
MaxCombinedItems == 7
\* longest text whose batch filename is derived on its own
MaxNameLen == 2
\* most generate calls made one after the other on the single-item side
MaxCalls == 2
\* latest second at which a generate call is made
MaxClock == 1
\* most handlers dispatched inside one batch run
MaxEvents == 1
\* most lines of a text input file, and most rows after the header of a CSV input file
MaxLines == 3

(* ----------------------------- strings -------------------------------- *)

Letters ==
    {"A", "B", "C", "D", "E", "F", "G", "H", "I", "J", "K", "L", "M",
     "N", "O", "P", "Q", "R", "S", "T", "U", "V", "W", "X", "Y", "Z",
     "a", "b", "c", "d", "e", "f", "g", "h", "i", "j", "k", "l", "m",
     "n", "o", "p", "q", "r", "s", "t", "u", "v", "w", "x", "y", "z"}
Digits == {"0", "1", "2", "3", "4", "5", "6", "7", "8", "9"}
Whitespace == {" ", "\t", "\n"}

\* str.isalnum() on one character
isalnum(c) == c \in Letters \cup Digits

\* ch(c): the filter of "".join(c for c in s if c.isalnum() or c in (' ', '-', '_'))
KeepChar(c) == isalnum(c) \/ c \in {" ", "-", "_"}

sanitize(s) == SelectSeq(s, KeepChar)

RECURSIVE rstrip(_)
rstrip(s) ==
    IF s = <<>> THEN s
    ELSE IF s[Len(s)] \in Whitespace THEN rstrip(SubSeq(s, 1, Len(s) - 1))
    ELSE s

RECURSIVE lstrip(_)
lstrip(s) ==
    IF s = <<>> THEN s
    ELSE IF s[1] \in Whitespace THEN lstrip(Tail(s))
    ELSE s

\* str.strip()
strip(s) == lstrip(rstrip(s))

DigitChar(d) ==
    CASE d = 0 -> "0" [] d = 1 -> "1" [] d = 2 -> "2" [] d = 3 -> "3"
      [] d = 4 -> "4" [] d = 5 -> "5" [] d = 6 -> "6" [] d = 7 -> "7"
      [] d = 8 -> "8" [] d = 9 -> "9"

RECURSIVE DecStr(_)
DecStr(n) == IF n < 10 THEN <<DigitChar(n)>> ELSE DecStr(n \div 10) \o <<DigitChar(n % 10)>>

RECURSIVE LeftPad(_, _)
LeftPad(s, w) == IF Len(s) >= w THEN s ELSE LeftPad(<<"0">> \o s, w)

\* f"{n:04d}": at least four digits, zero-filled on the left
ZeroPad04(n) == LeftPad(DecStr(n), 4)

\* text[:20]
Truncate20(text) == SubSeq(text, 1, IF Len(text) < 20 THEN Len(text) ELSE 20)

\* BatchFilename with the index neither zero-filled nor followed by "_"
BatchFilename_NoSeparator(prefix, i, text) ==
    rstrip(sanitize(prefix \o DecStr(i + 1) \o Truncate20(text)))

\* BatchFilename numbering the items from 0
BatchFilename_ZeroBased(prefix, i, text) ==
    rstrip(sanitize(prefix \o ZeroPad04(i) \o <<"_">> \o Truncate20(text)))

\* lines 659-660, for the 0-based loop index i
BatchFilename(prefix, i, text) ==
    rstrip(sanitize(prefix \o ZeroPad04(i + 1) \o <<"_">> \o Truncate20(text)))

EXT_PNG == <<".", "p", "n", "g">>
EXT_SVG == <<".", "s", "v", "g">>
EXT_PDF == <<".", "p", "d", "f">>

\* f"{prefix}combined_barcodes.pdf" (the prefix is not sanitized here)
CombinedPdfName(prefix) ==
    prefix \o <<"c", "o", "m", "b", "i", "n", "e", "d", "_",
                "b", "a", "r", "c", "o", "d", "e", "s">> \o EXT_PDF

\* datetime.now().strftime("%Y%m%d_%H%M%S"), t seconds after 2025-01-01 00:00:00 (t < 60)
strftime(t) ==
    <<"2", "0", "2", "5", "0", "1", "0", "1", "_", "0", "0", "0", "0">> \o LeftPad(DecStr(t), 2)

\* lines 531-535: the filename generate_barcode derives when it is given none
DerivedFilename(text, t) ==
    <<"b", "a", "r", "c", "o", "d", "e", "_">> \o rstrip(sanitize(text)) \o <<"_">> \o strftime(t)

\* filename=None, which no string equals
None == <<"None">>

\* str.upper() on the format names used here
upper(fmt) ==
    CASE fmt = "pdf" -> "PDF"
      [] fmt = "svg" -> "SVG"
      [] fmt = "png" -> "PNG"
      [] OTHER -> fmt

TEMP_BARCODE == <<"t", "e", "m", "p", "_", "b", "a", "r", "c", "o", "d", "e">> \o EXT_PNG

(* ------------------------------ inputs -------------------------------- *)

\* self.barcode_types: the keys of the symbology registry
barcode_types == {"Code128", "Code39", "EAN13", "EAN8", "UPC-A", "ITF", "CODABAR"}

\* the choices of batch_format_choice
BatchFormats(pdf) ==
    IF pdf THEN {"PNG", "SVG", "PDF (Individual)", "PDF (Combined)"} ELSE {"PNG", "SVG"}

T_A1 == <<"A", "1">>
T_B2 == <<"B", "2">>
T_C3 == <<"C", "3">>
\* sanitizes to "ab", like T_ab
T_aSLb == <<"a", "/", "b">>
T_ab == <<"a", "b">>
\* sanitizes to "a " (a trailing space appears once "/" is dropped)
T_aSPSL == <<"a", " ", "/">>
\* 21 characters; the first 20 end with a space
T_long == [k \in 1..21 |-> IF k = 20 THEN " " ELSE IF k = 21 THEN "b" ELSE "a"]

P_x == <<"x", "_">>
P_pSL == <<"p", "/", " ">>
Prefixes == {P_x, P_pSL}

\* The contents of input files: a pattern of records repeated up to the length n.
Patterns == {<<T_A1, T_B2, T_C3>>, <<T_aSLb, T_ab, T_aSPSL>>, <<T_long, T_aSPSL>>}
Repeat(pat, n) == [k \in 1..n |-> pat[((k - 1) % Len(pat)) + 1]]
InputLists(max) == {Repeat(pat, n) : pat \in Patterns, n \in 0..max}

\* Lines as f.readlines() gives them: with their line end, but for a last line without
L_A1 == <<"A", "1", "\n">>
L_empty == <<"\n">>
L_B2_last == <<"B", "2">>
L_padded == <<" ", "A", "1", " ", "\n">>
L_blank == <<" ", "\t", "\n">>
L_C3 == <<"C", "3", " ", "\n">>
LinePatterns == {<<L_A1, L_empty, L_B2_last>>, <<L_padded, L_blank, L_C3>>}
TextFiles == {Repeat(pat, n) : pat \in LinePatterns, n \in 0..MaxLines}

\* Rows as csv.reader gives them: lists of cells
Header == <<<<"n", "a", "m", "e">>, <<"c", "o", "d", "e">>>>
R_a1 == <<<<"a">>, <<"1">>>>
R_b == <<<<"b">>, <<>>>>
R_c2 == <<<<"c">>, <<"2">>>>
R_padded == <<<<"e">>, <<" ", "1", " ">>>>
R_short == <<<<"d">>>>
R_blank == <<<<"b">>, <<" ">>>>
RowPatterns == {<<R_a1, R_b, R_c2>>, <<R_padded, R_short, R_blank>>}
\* an empty file, or a header row and the rows after it
CsvFiles == {<<>>} \cup {<<Header>> \o Repeat(pat, n) : pat \in RowPatterns, n \in 0..MaxLines}

\* the paths open() succeeds on
ReadableFiles == {"input.txt"}

(* ------------------------------- state -------------------------------- *)

VARIABLES
    HAS_PDF_SUPPORT,  \* module flag set by the import of reportlab/PIL
    data,             \* the extracted records
    barcode_type,     \* batch_barcode_choice.GetStringSelection()
    output_format,    \* batch_format_choice.GetStringSelection()
    prefix,           \* prefix_ctrl.GetValue()
    pc,               \* position of the handler
    i,                \* loop index of enumerate(data): items processed so far
    successful,       \* local counter of on_generate_batch
    failed_items,     \* local list of on_generate_batch
    progress,         \* progress_gauge value
    files,            \* names of the files present in the output directory
    temps,            \* names of the temporary images present in the working directory
    calls,            \* history: the generate_barcode calls made, in order
    success,          \* return value of generate_combined_pdf ("unset" before it returns)
    page,             \* number of showPage() calls made on the canvas
    draws,            \* history: the drawImage calls made, in order
    iters,            \* history: per iteration of the combined loop, where it raised
                      \* and whether showPage() was called in it
    output_dir_ok,    \* whether files can be created in the chosen output directory
    file_path,        \* file_picker.GetPath(): "" when no input file is selected
    source,           \* source_radio.GetSelection(): 0 text file, 1 CSV file
    column_index,     \* csv_column_choice.GetSelection(): -1 when nothing is selected
    input_file,       \* content of the input file: its lines, or its rows of cells
    text_ctrl,        \* text_ctrl.GetValue()
    clock,            \* datetime.now(), in seconds
    settings,         \* self.settings
    settings_file,    \* barcode_generator_settings.json: whether it exists, and its object
    events            \* history: the handlers dispatched by Yield() inside a batch run

vars == <<HAS_PDF_SUPPORT, data, barcode_type, output_format, prefix, pc, i, successful,
          failed_items, progress, files, temps, calls, success, page, draws, iters,
          output_dir_ok, file_path, source, column_index, input_file, text_ctrl, clock,
          settings, settings_file, events>>

\* the controls of the batch tab
batch_controls == <<HAS_PDF_SUPPORT, data, barcode_type, output_format, prefix>>

\* the locals and the history of a run, and the directories
run == <<i, successful, failed_items, progress, files, temps, calls, success, page,
         draws, iters>>

\* what a batch run reads from the controls and from its surroundings and never writes
session == <<output_dir_ok, file_path, source, column_index, input_file, text_ctrl, clock,
             settings, settings_file>>

inputs == <<HAS_PDF_SUPPORT, data, barcode_type, output_format, prefix, session, events>>

(* ------------------------------ settings ------------------------------ *)

\* Python values by type; a float is held in tenths (2.0 is FloatV(20))
StrV(v) == [k |-> "str", v |-> v]
FloatV(tenths) == [k |-> "float", v |-> tenths]
IntV(n) == [k |-> "int", v |-> n]
BoolV(b) == [k |-> "bool", v |-> b]

EmptyDict == [key \in {} |-> StrV("")]

\* d[key] = v on a dict
DictSet(d, key, v) == (key :> v) @@ d
\* d.update(e)
DictUpdate(d, e) == e @@ d

\* lines 42-51: the settings a start of the program begins with
InitialSettings ==
    [key \in {"default_barcode_type", "default_output_format", "default_output_dir",
              "barcode_width", "barcode_height", "include_text", "text_distance",
              "font_size"} |->
        CASE key = "default_barcode_type" -> StrV("Code128")
          [] key = "default_output_format" -> StrV("PNG")
          [] key = "default_output_dir" -> StrV("~/Downloads")
          [] key = "barcode_width" -> FloatV(20)
          [] key = "barcode_height" -> FloatV(150)
          [] key = "include_text" -> BoolV(TRUE)
          [] key = "text_distance" -> IntV(5)
          [] key = "font_size" -> IntV(10)]

\* lines 790-798: the dict on_reset_settings assigns
ResetSettings ==
    [key \in {"default_barcode_type", "default_output_format", "default_output_dir",
              "barcode_width", "barcode_height", "include_text", "font_size"} |->
        CASE key = "default_barcode_type" -> StrV("Code128")
          [] key = "default_output_format" -> StrV("PNG")
          [] key = "default_output_dir" -> StrV("~/Downloads")
          [] key = "barcode_width" -> FloatV(10)
          [] key = "barcode_height" -> FloatV(500)
          [] key = "include_text" -> BoolV(TRUE)
          [] key = "font_size" -> IntV(24)]

\* json.dump of one value: a float is written with a fraction part, an int without
JsonDumpValue(v) ==
    CASE v.k = "str" -> [tok |-> "string", v |-> v.v]
      [] v.k = "float" -> [tok |-> "fraction", v |-> v.v]
      [] v.k = "int" -> [tok |-> "integer", v |-> v.v]
      [] v.k = "bool" -> [tok |-> "literal", v |-> v.v]

\* json.load of one token
JsonLoadValue(t) ==
    CASE t.tok = "string" -> StrV(t.v)
      [] t.tok = "fraction" -> FloatV(t.v)
      [] t.tok = "integer" -> IntV(t.v)
      [] t.tok = "literal" -> BoolV(t.v)

JsonDump(d) == [key \in DOMAIN d |-> JsonDumpValue(d[key])]
JsonLoad(j) == [key \in DOMAIN j |-> JsonLoadValue(j[key])]

NoSettingsFile == [exists |-> FALSE, json |-> JsonDump(EmptyDict)]

\* save_settings, lines 71-77, when the file can be written
save_settings(st) == [exists |-> TRUE, json |-> JsonDump(st)]

\* load_settings, lines 60-69, into the settings st
load_settings(st, file) ==
    IF file.exists THEN DictUpdate(st, JsonLoad(file.json)) ELSE st

\* lines 537-546: the encoder options a generate call builds from self.settings
options(st) ==
    [module_width |-> st["barcode_width"].v, module_height |-> st["barcode_height"].v,
     font_size |-> st["font_size"].v, write_text |-> st["include_text"].v]

(* ------------------------ single-item generator ----------------------- *)

\* Where the external libraries may raise inside generate_barcode, for the image formats:
\* "encode" is barcode_class(text, writer=...) raising, "write" is code.save raising with
\* nothing at the path, "write_partial" is code.save raising after the file was created.
ImageFailPoints == {"none", "encode", "write", "write_partial"}

\* Inside generate_pdf_barcode: "encode" is lines 573-587 raising before the temporary
\* image exists, "embed" is Canvas/drawImage/save raising with nothing at the pdf path,
\* "embed_partial" is c.save() raising after the file was created, "remove" is
\* os.remove raising.
PdfFailPoints == {"none", "encode", "embed", "embed_partial", "remove"}

\* the branch generate_barcode takes for output_format
TakesPdfBranch(fmt) == fmt = "PDF" /\ HAS_PDF_SUPPORT

\* In a directory where no file can be created a save can only raise, and leaves nothing.
FailPoints(fmt) ==
    IF TakesPdfBranch(fmt)
    THEN IF output_dir_ok THEN PdfFailPoints ELSE {"encode", "embed"}
    ELSE IF output_dir_ok THEN ImageFailPoints ELSE {"encode", "write"}

\* generate_pdf_barcode: result for the fail point fp, from the directory contents fs, ts
generate_pdf_barcode(text, type, filename, fp, fs, ts) ==
    LET pdf_path == filename \o EXT_PDF IN
    IF ~HAS_PDF_SUPPORT \/ type \notin barcode_types \/ fp = "encode"
    THEN [raised |-> TRUE, ret |-> FALSE, files |-> fs, temps |-> ts]
    ELSE IF fp = "embed"
    THEN [raised |-> TRUE, ret |-> FALSE, files |-> fs, temps |-> ts \cup {TEMP_BARCODE}]
    ELSE IF fp = "embed_partial"
    THEN [raised |-> TRUE, ret |-> FALSE, files |-> fs \cup {pdf_path},
          temps |-> ts \cup {TEMP_BARCODE}]
    ELSE IF fp = "remove"
    THEN [raised |-> TRUE, ret |-> FALSE, files |-> fs \cup {pdf_path},
          temps |-> ts \cup {TEMP_BARCODE}]
    ELSE [raised |-> FALSE, ret |-> TRUE, files |-> fs \cup {pdf_path},
          temps |-> ts \ {TEMP_BARCODE}]

\* generate_barcode deleting the files of the directory when it raises
generate_barcode_Rollback(text, type, fmt, filename, fp, fs, ts) ==
    IF type \notin barcode_types \/ fp # "none"
    THEN [raised |-> TRUE, ret |-> FALSE, files |-> {}, temps |-> ts]
    ELSE IF TakesPdfBranch(fmt)
    THEN generate_pdf_barcode(text, type, filename, fp, fs, ts)
    ELSE [raised |-> FALSE, ret |-> TRUE,
          files |-> fs \cup {filename \o (IF fmt = "SVG" THEN EXT_SVG ELSE EXT_PNG)},
          temps |-> ts]

\* generate_barcode with an explicit filename
generate_barcode(text, type, fmt, filename, fp, fs, ts) ==
    IF type \notin barcode_types
    THEN [raised |-> TRUE, ret |-> FALSE, files |-> fs, temps |-> ts]
    ELSE IF TakesPdfBranch(fmt)
    THEN generate_pdf_barcode(text, type, filename, fp, fs, ts)
    ELSE LET extension == IF fmt = "SVG" THEN EXT_SVG ELSE EXT_PNG
             output_path == filename \o extension
         IN  IF fp \in {"encode", "write"}
             THEN [raised |-> TRUE, ret |-> FALSE, files |-> fs, temps |-> ts]
             ELSE IF fp = "write_partial"
             THEN [raised |-> TRUE, ret |-> FALSE, files |-> fs \cup {output_path},
                   temps |-> ts]
             ELSE [raised |-> FALSE, ret |-> TRUE, files |-> fs \cup {output_path},
                   temps |-> ts]

\* generate_barcode, lines 526-563, called at the time t with a filename or with None
generate_barcode_at(text, type, fmt, filename, t, fp, fs, ts) ==
    generate_barcode(text, type, fmt,
                     IF filename = None THEN DerivedFilename(text, t) ELSE filename,
                     fp, fs, ts)

(* ------------------- logic/barcode_generator.py ----------------------- *)

\* BarcodeGenerator.barcode_types: the keys of the registry of the logic module
logic_barcode_types == {"EAN13", "EAN8", "Code128", "Code39", "UPC", "ISBN13"}

\* the branch BarcodeGenerator.generate_barcode takes for output_format
LogicFormat(fmt) ==
    IF upper(fmt) = "SVG" THEN "SVG" ELSE IF upper(fmt) = "PDF" THEN "PDF" ELSE "PNG"

\* where the libraries may raise inside BarcodeGenerator.generate_barcode
LogicFailPoints(fmt) ==
    IF LogicFormat(fmt) = "PDF"
    THEN IF ~HAS_PDF_SUPPORT THEN {"none"}
         ELSE IF output_dir_ok THEN PdfFailPoints ELSE {"encode", "embed"}
    ELSE IF output_dir_ok THEN ImageFailPoints ELSE {"encode", "write"}

\* BarcodeGenerator.generate_pdf_barcode, lines 76-95
logic_generate_pdf_barcode(filename, fp, fs, ts) ==
    LET pdf_path == filename \o EXT_PDF IN
    IF fp = "encode"
    THEN [raised |-> TRUE, ret |-> None, files |-> fs, temps |-> ts]
    ELSE IF fp = "embed"
    THEN [raised |-> TRUE, ret |-> None, files |-> fs, temps |-> ts \cup {TEMP_BARCODE}]
    ELSE IF fp \in {"embed_partial", "remove"}
    THEN [raised |-> TRUE, ret |-> None, files |-> fs \cup {pdf_path},
          temps |-> ts \cup {TEMP_BARCODE}]
    ELSE [raised |-> FALSE, ret |-> pdf_path, files |-> fs \cup {pdf_path},
          temps |-> ts \ {TEMP_BARCODE}]

\* BarcodeGenerator.generate_barcode, lines 33-74; it returns the output path
logic_generate_barcode(text, type, fmt, filename, t, fp, fs, ts) ==
    LET name == IF filename = None THEN DerivedFilename(text, t) ELSE filename IN
    IF type \notin logic_barcode_types
    THEN [raised |-> TRUE, ret |-> None, files |-> fs, temps |-> ts]
    ELSE IF LogicFormat(fmt) = "PDF"
    THEN IF ~HAS_PDF_SUPPORT
         THEN [raised |-> TRUE, ret |-> None, files |-> fs, temps |-> ts]
         ELSE logic_generate_pdf_barcode(name, fp, fs, ts)
    ELSE LET extension == IF LogicFormat(fmt) = "SVG" THEN EXT_SVG ELSE EXT_PNG
             output_path == name \o extension
         IN  IF fp \in {"encode", "write"}
             THEN [raised |-> TRUE, ret |-> None, files |-> fs, temps |-> ts]
             ELSE IF fp = "write_partial"
             THEN [raised |-> TRUE, ret |-> None, files |-> fs \cup {output_path},
                   temps |-> ts]
             ELSE [raised |-> FALSE, ret |-> output_path, files |-> fs \cup {output_path},
                   temps |-> ts]

(* ------------------------- single generation -------------------------- *)

\* the choices of format_choice, lines 168-171
SingleFormats(pdf) == IF pdf THEN {"PNG", "SVG", "PDF"} ELSE {"PNG", "SVG"}

\* contents of the text field: nothing, blanks only, a text between blanks
TextInputs == {<<>>, <<" ">>, <<" ">> \o T_aSPSL \o <<"\n">>}

\* arguments a caller hands to the generators directly
CallTexts == {<<>>, T_A1}
CallTypes == {"Code128", "QR"}
CallFilenames == {None, <<"f">>}

\* the record of one generate call: its arguments, the filename it used, where it
\* raised, and the directory before and after it
SingleCall(module, text, type, fmt, filename, fp, r, fs) ==
    [module |-> module, text |-> text, type |-> type, format |-> fmt,
     filename |-> filename, fp |-> fp, support |-> HAS_PDF_SUPPORT,
     raised |-> r.raised, before |-> fs, after |-> r.files, temps |-> r.temps]

\* on_generate_single, lines 505-524
OnGenerateSingle ==
    /\ pc = "idle"
    /\ Len(calls) < MaxCalls
    /\ LET text == strip(text_ctrl) IN
       IF text = <<>>
       THEN UNCHANGED <<files, temps, calls>>
       ELSE \E fp \in FailPoints(output_format) :
              LET r == generate_barcode_at(text, barcode_type, output_format, None,
                                           clock, fp, files, temps)
              IN  /\ calls' = Append(calls,
                                     SingleCall("try", text, barcode_type, output_format,
                                                DerivedFilename(text, clock), fp, r, files))
                  /\ files' = r.files
                  /\ temps' = r.temps
    /\ UNCHANGED <<inputs, pc, i, successful, failed_items, progress, success, page,
                   draws, iters>>

\* BarcodeGeneratorFrame.generate_barcode called with arguments of the caller's choice
GenerateBarcodeCall ==
    /\ pc = "idle"
    /\ Len(calls) < MaxCalls
    /\ \E text \in CallTexts, type \in CallTypes, fmt \in {"PNG", "PDF"},
          filename \in CallFilenames :
         \E fp \in FailPoints(fmt) :
           LET r == generate_barcode_at(text, type, fmt, filename, clock, fp, files, temps)
               name == IF filename = None THEN DerivedFilename(text, clock) ELSE filename
           IN  /\ calls' = Append(calls, SingleCall("try", text, type, fmt, name, fp, r,
                                                    files))
               /\ files' = r.files
               /\ temps' = r.temps
    /\ UNCHANGED <<inputs, pc, i, successful, failed_items, progress, success, page,
                   draws, iters>>

\* BarcodeGenerator.generate_barcode called with arguments of the caller's choice
LogicGenerateBarcodeCall ==
    /\ pc = "idle"
    /\ Len(calls) < MaxCalls
    /\ \E text \in CallTexts, type \in CallTypes, fmt \in {"svg", "PDF"},
          filename \in CallFilenames :
         \E fp \in LogicFailPoints(fmt) :
           LET r == logic_generate_barcode(text, type, fmt, filename, clock, fp, files,
                                           temps)
               name == IF filename = None THEN DerivedFilename(text, clock) ELSE filename
           IN  /\ calls' = Append(calls, SingleCall("logic", text, type, LogicFormat(fmt),
                                                    name, fp, r, files))
               /\ files' = r.files
               /\ temps' = r.temps
    /\ UNCHANGED <<inputs, pc, i, successful, failed_items, progress, success, page,
                   draws, iters>>

(* --------------------------- settings tab ----------------------------- *)

\* values the controls of the settings tab can hold when Save Settings is pressed
WidthSpin == {FloatV(10), FloatV(20)}
HeightSpin == {FloatV(150)}
TextDistanceSpin == {IntV(6)}
FontSpin == {IntV(10), IntV(24)}
DefaultTypeChoice == {StrV("Code128"), StrV("EAN13")}
DefaultFormatChoice == {StrV("PNG")}

\* wx.GetApp().Yield(), lines 679 and 762, dispatches the pending events of the user:
\* a handler that runs while a batch run is in its loop was dispatched by it
Dispatched(handler) ==
    IF pc = "loop" THEN Append(events, [handler |-> handler, at |-> i]) ELSE events

\* the outcome of open(..., 'w') in save_settings: an exception is passed over
WriteOutcomes == {"ok", "fail"}

\* on_save_settings, lines 775-786
OnSaveSettings ==
    /\ pc # "closed"
    /\ \E w \in WidthSpin, h \in HeightSpin, t \in BOOLEAN, d \in TextDistanceSpin,
          f \in FontSpin, ty \in DefaultTypeChoice, fmt \in DefaultFormatChoice,
          out \in WriteOutcomes :
         LET s1 == DictSet(settings, "barcode_width", w)
             s2 == DictSet(s1, "barcode_height", h)
             s3 == DictSet(s2, "include_text", BoolV(t))
             s4 == DictSet(s3, "text_distance", d)
             s5 == DictSet(s4, "font_size", f)
             s6 == DictSet(s5, "default_barcode_type", ty)
             s7 == DictSet(s6, "default_output_format", fmt)
         IN  /\ settings' = s7
             /\ settings_file' = IF out = "ok" THEN save_settings(s7) ELSE settings_file
    /\ events' = Dispatched("on_save_settings")
    /\ UNCHANGED <<batch_controls, output_dir_ok, file_path, source, column_index,
                   input_file, text_ctrl, clock, pc, run>>

\* on_reset_settings, lines 788-815
OnResetSettings ==
    /\ pc # "closed"
    /\ settings' = ResetSettings
    /\ events' = Dispatched("on_reset_settings")
    /\ UNCHANGED <<batch_controls, output_dir_ok, file_path, source, column_index,
                   input_file, text_ctrl, clock, settings_file, pc, run>>

\* on_exit, lines 817-820
OnExit ==
    /\ pc = "idle"
    /\ \E out \in WriteOutcomes :
         settings_file' = IF out = "ok" THEN save_settings(settings) ELSE settings_file
    /\ pc' = "closed"
    /\ UNCHANGED <<batch_controls, output_dir_ok, file_path, source, column_index,
                   input_file, text_ctrl, clock, settings, events, run>>

\* a fresh start of the program: __init__, lines 41-54
Startup ==
    /\ pc = "closed"
    /\ settings' = load_settings(InitialSettings, settings_file)
    /\ pc' = "idle"
    /\ UNCHANGED <<batch_controls, output_dir_ok, file_path, source, column_index,
                   input_file, text_ctrl, clock, settings_file, events, run>>

(* --------------------------- batch handler ---------------------------- *)

\* lines 616-617: [line.strip() for line in f.readlines() if line.strip()]
RECURSIVE ReadLines(_)
ReadLines(lines) ==
    IF lines = <<>> THEN <<>>
    ELSE (IF strip(Head(lines)) # <<>> THEN <<strip(Head(lines))>> ELSE <<>>)
         \o ReadLines(Tail(lines))

\* ReadRows appending the cell as it is
RECURSIVE ReadRows_Unstripped(_, _)
ReadRows_Unstripped(rows, ci) ==
    IF rows = <<>> THEN <<>>
    ELSE LET row == Head(rows) IN
         (IF Len(row) > ci /\ strip(row[ci + 1]) # <<>>
          THEN <<row[ci + 1]>> ELSE <<>>)
         \o ReadRows_Unstripped(Tail(rows), ci)

\* lines 628-630: the loop over the rows after the header, for the 0-based column ci
RECURSIVE ReadRows(_, _)
ReadRows(rows, ci) ==
    IF rows = <<>> THEN <<>>
    ELSE LET row == Head(rows) IN
         (IF Len(row) > ci /\ strip(row[ci + 1]) # <<>>
          THEN <<strip(row[ci + 1])>> ELSE <<>>)
         \o ReadRows(Tail(rows), ci)

\* lines 624-630, on a file with a header row
ReadCsv(rows, ci) == ReadRows(Tail(rows), ci)

\* on_generate_batch, lines 606-630: the input file is read into data
BatchRead ==
    /\ pc = "reading"
    /\ IF file_path = ""
       THEN pc' = "aborted" /\ UNCHANGED data
       ELSE IF source = 0
       THEN IF file_path \notin ReadableFiles
            THEN pc' = "aborted" /\ UNCHANGED data
            ELSE data' = ReadLines(input_file) /\ pc' = "idle"
       ELSE IF column_index = -1
       THEN pc' = "aborted" /\ UNCHANGED data
       ELSE IF file_path \notin ReadableFiles \/ input_file = <<>>
       THEN pc' = "aborted" /\ UNCHANGED data
       ELSE data' = ReadCsv(input_file, column_index) /\ pc' = "idle"
    /\ UNCHANGED <<HAS_PDF_SUPPORT, barcode_type, output_format, prefix, session, events,
                   run>>

\* on_generate_batch, lines 632-655: the empty-input check, the progress reset and the
\* choice of branch
BatchStart ==
    /\ pc = "idle"
    /\ IF data = <<>>
       THEN /\ pc' = "aborted"
            /\ UNCHANGED <<progress, successful, failed_items>>
       ELSE /\ progress' = 0
            /\ successful' = 0
            /\ failed_items' = <<>>
            /\ pc' = IF output_format = "PDF (Combined)" /\ HAS_PDF_SUPPORT
                     THEN "combined" ELSE "loop"
    /\ UNCHANGED <<inputs, i, files, temps, calls, success, page, draws, iters>>

\* BatchItem without the inner try: an exception of generate_barcode ends the run
BatchItem_StopsOnFailure ==
    /\ pc = "loop"
    /\ i < Len(data)
    /\ LET text == data[i + 1]
           filename == BatchFilename(prefix, i, text)
           format_to_use == IF output_format = "PDF (Individual)" THEN "PDF"
                            ELSE output_format
       IN  \E fp \in FailPoints(format_to_use) :
             LET r == generate_barcode(text, barcode_type, format_to_use, filename,
                                       fp, files, temps)
             IN  /\ calls' = Append(calls, [index |-> i, text |-> text,
                                            filename |-> filename,
                                            format |-> format_to_use, fp |-> fp,
                                            options |-> options(settings)])
                 /\ files' = r.files
                 /\ temps' = r.temps
                 /\ successful' = IF r.raised THEN successful ELSE successful + 1
                 /\ pc' = IF r.raised THEN "error" ELSE pc
                 /\ progress' = IF r.raised THEN progress ELSE i + 1
    /\ i' = i + 1
    /\ UNCHANGED <<inputs, failed_items, success, page, draws, iters>>

\* one iteration of the loop of lines 657-679
BatchItem ==
    /\ pc = "loop"
    /\ i < Len(data)
    /\ LET text == data[i + 1]
           filename == BatchFilename(prefix, i, text)
           format_to_use == IF output_format = "PDF (Individual)" THEN "PDF"
                            ELSE output_format
       IN  \E fp \in FailPoints(format_to_use) :
             LET r == generate_barcode(text, barcode_type, format_to_use, filename,
                                       fp, files, temps)
             IN  /\ calls' = Append(calls, [index |-> i, text |-> text,
                                            filename |-> filename,
                                            format |-> format_to_use, fp |-> fp,
                                            options |-> options(settings)])
                 /\ files' = r.files
                 /\ temps' = r.temps
                 /\ IF r.raised
                    THEN /\ failed_items' = Append(failed_items, <<text, fp>>)
                         /\ UNCHANGED successful
                    ELSE IF r.ret
                    THEN /\ successful' = successful + 1
                         /\ UNCHANGED failed_items
                    ELSE /\ failed_items' = Append(failed_items, <<text, "">>)
                         /\ UNCHANGED successful
    /\ progress' = i + 1
    /\ i' = i + 1
    /\ UNCHANGED <<inputs, pc, success, page, draws, iters>>

\* The batch run is inside the Yield() of line 679 with items still to come, where the
\* pending events of the user are dispatched.
InsideYield ==
    /\ pc = "loop"
    /\ 1 <= i
    /\ i < Len(data)
    /\ Len(events) < MaxEvents

\* what a recursive call of Yield() does: wxPython raises wxAssertionError, a build
\* without assertions returns False
RecursiveYield == {"raises", "returns"}

\* the items k..n of a loop like that of lines 657-679, with the fail points fps:
\* the directories after them
RECURSIVE LoopItems(_, _, _, _, _)
LoopItems(k, n, fps, fs, ts) ==
    IF k > n THEN [files |-> fs, temps |-> ts]
    ELSE LET format_to_use == IF output_format = "PDF (Individual)" THEN "PDF"
                              ELSE output_format
             r == generate_barcode(data[k], barcode_type, format_to_use,
                                   BatchFilename(prefix, k - 1, data[k]), fps[k], fs, ts)
         IN  LoopItems(k + 1, n, fps, r.files, r.temps)

\* on_generate_batch dispatched inside the Yield() of a run: the button is pressed again
\* on the same input. Its own Yield() is a recursive one: when that raises, the handler
\* ends after its first item (line 692), otherwise it goes through all of them.
NestedBatchPress ==
    /\ InsideYield
    /\ \E out \in RecursiveYield :
         LET n == IF out = "raises" THEN 1 ELSE Len(data)
             format_to_use == IF output_format = "PDF (Individual)" THEN "PDF"
                              ELSE output_format
         IN  \E fps \in [1..n -> FailPoints(format_to_use)] :
               LET r == LoopItems(1, n, fps, files, temps)
               IN  /\ files' = r.files
                   /\ temps' = r.temps
                   /\ progress' = n
    /\ events' = Dispatched("on_generate_batch")
    /\ UNCHANGED <<batch_controls, session, pc, i, successful, failed_items, calls,
                   success, page, draws, iters>>

\* lines 681-690: the loop (or the combined assembler) is over, the result is shown
BatchResults ==
    /\ \/ pc = "loop" /\ i = Len(data)
       \/ pc = "combined_returned"
    /\ pc' = "done"
    /\ UNCHANGED <<inputs, i, successful, failed_items, progress, files, temps, calls,
                   success, page, draws, iters>>

(* ---------------------- combined-document layout ---------------------- *)

\* n points, in units of 1/127 point
pt(n) == n * 127

\* reportlab.lib.pagesizes.A4 = (210*mm, 297*mm) with mm = 72/25.4 points
A4 == <<75600, 106920>>

page_width == A4[1]
page_height == A4[2]
margin == pt(72)
usable_width == page_width - 2 * margin
usable_height == page_height - 2 * margin
barcode_height == pt(80)
barcode_width == pt(250)
spacing == pt(20)

Max2(a, b) == IF a >= b THEN a ELSE b

\* int() of a positive quotient is its floor
barcodes_per_row == Max2(1, usable_width \div (barcode_width + spacing))
barcodes_per_column == Max2(1, usable_height \div (barcode_height + spacing))
barcodes_per_page == barcodes_per_row * barcodes_per_column

\* lines 740-745 for the loop index k
page_position(k) == k % barcodes_per_page
row(k) == page_position(k) \div barcodes_per_row
col(k) == page_position(k) % barcodes_per_row
x(k) == margin + col(k) * (barcode_width + spacing)
\* y measured to the top edge of the row instead of its bottom edge
y_TopOfRow(k) == page_height - margin - row(k) * (barcode_height + spacing)
y(k) == page_height - margin - (row(k) + 1) * (barcode_height + spacing)

\* line 755: the condition under which showPage() is called after item k of n
NewPageNeeded(k, n) == (k + 1) % barcodes_per_page = 0 /\ k < n - 1

(* --------------------- combined-document assembler -------------------- *)

\* Where one iteration of the loop of lines 733-766 may raise: "before_draw" is the
\* encoder, the temporary image or drawImage raising (lines 736-748), "after_draw" is
\* the clean-up of the temporary image raising (lines 751-752).
CombinedFailPoints == {"none", "before_draw", "after_draw"}

\* What c.save() may do: write the document, raise with nothing at the path, or raise
\* after the destination was created.
SaveOutcomes == IF output_dir_ok THEN {"ok", "fail", "fail_partial"} ELSE {"fail"}

\* generate_combined_pdf, lines 697-731: everything before the loop
CombinedBegin ==
    /\ pc = "combined"
    /\ IF ~HAS_PDF_SUPPORT \/ barcode_type \notin barcode_types
       THEN /\ success' = "False"
            /\ pc' = "combined_returned"
            /\ UNCHANGED <<i, page>>
       ELSE /\ i' = 0
            /\ page' = 0
            /\ pc' = "combining"
            /\ UNCHANGED success
    /\ UNCHANGED <<inputs, successful, failed_items, progress, files, temps, calls,
                   draws, iters>>

\* CombinedItem placing each image at the slot after the last one drawn
CombinedItem_Compacts ==
    /\ pc = "combining"
    /\ i < Len(data)
    /\ \E fp \in CombinedFailPoints :
         LET drawn == fp # "before_draw"
             turned == fp = "none" /\ NewPageNeeded(i, Len(data))
         IN  /\ draws' = IF drawn
                         THEN Append(draws, [index |-> i, page |-> page,
                                             x |-> x(Len(draws)), y |-> y(Len(draws))])
                         ELSE draws
             /\ page' = IF turned THEN page + 1 ELSE page
             /\ iters' = Append(iters, [fp |-> fp, turned |-> turned])
             /\ progress' = IF fp = "none" THEN i + 1 ELSE progress
    /\ i' = i + 1
    /\ UNCHANGED <<inputs, pc, successful, failed_items, files, temps, calls, success>>

\* one iteration of the loop of lines 733-766
CombinedItem ==
    /\ pc = "combining"
    /\ i < Len(data)
    /\ \E fp \in CombinedFailPoints :
         LET drawn == fp # "before_draw"
             turned == fp = "none" /\ NewPageNeeded(i, Len(data))
         IN  /\ draws' = IF drawn
                         THEN Append(draws, [index |-> i, page |-> page,
                                             x |-> x(i), y |-> y(i)])
                         ELSE draws
             /\ page' = IF turned THEN page + 1 ELSE page
             /\ iters' = Append(iters, [fp |-> fp, turned |-> turned])
             /\ progress' = IF fp = "none" THEN i + 1 ELSE progress
    /\ i' = i + 1
    /\ UNCHANGED <<inputs, pc, successful, failed_items, files, temps, calls, success>>

\* CombinedSave with the caller counting the items drawn instead of len(data)
CombinedSave_CountsDrawn ==
    /\ pc = "combining"
    /\ i = Len(data)
    /\ \E out \in SaveOutcomes :
         /\ files' = IF out = "fail" THEN files ELSE files \cup {CombinedPdfName(prefix)}
         /\ success' = IF out = "ok" THEN "True" ELSE "False"
         /\ successful' = IF out = "ok" THEN Len(draws) ELSE successful
    /\ pc' = "combined_returned"
    /\ UNCHANGED <<inputs, i, failed_items, progress, temps, calls, page, draws, iters>>

\* lines 768-773 and, back in on_generate_batch, lines 653-654
CombinedSave ==
    /\ pc = "combining"
    /\ i = Len(data)
    /\ \E out \in SaveOutcomes :
         /\ files' = IF out = "fail" THEN files ELSE files \cup {CombinedPdfName(prefix)}
         /\ success' = IF out = "ok" THEN "True" ELSE "False"
         /\ successful' = IF out = "ok" THEN Len(data) ELSE successful
    /\ pc' = "combined_returned"
    /\ UNCHANGED <<inputs, i, failed_items, progress, temps, calls, page, draws, iters>>

(* --------------------------- specifications --------------------------- *)

\* Nothing but the batch run goes on: a writable output directory, the settings of a
\* first start, and the controls of the other tabs untouched.
Quiet ==
    /\ output_dir_ok = TRUE
    /\ file_path = "input.txt"
    /\ source = 0
    /\ column_index = -1
    /\ input_file = <<>>
    /\ text_ctrl = <<>>
    /\ clock = 0
    /\ settings = InitialSettings
    /\ settings_file = NoSettingsFile

Fresh ==
    /\ i = 0
    /\ successful = 0
    /\ failed_items = <<>>
    /\ progress = 0
    /\ temps = {}
    /\ calls = <<>>
    /\ success = "unset"
    /\ page = 0
    /\ draws = <<>>
    /\ iters = <<>>
    /\ events = <<>>

\* One press of the batch button.
Init ==
    /\ HAS_PDF_SUPPORT \in BOOLEAN
    /\ data \in InputLists(MaxItems)
    /\ barcode_type \in {"Code128", "EAN13"}
    /\ output_format \in BatchFormats(HAS_PDF_SUPPORT)
    /\ prefix \in Prefixes
    /\ pc = "idle"
    /\ files = {}
    /\ Fresh
    /\ Quiet

Next ==
    \/ BatchStart
    \/ BatchItem
    \/ BatchResults
    \/ CombinedBegin
    \/ CombinedItem
    \/ CombinedSave

Spec == Init /\ [][Next]_vars

\* One call of generate_combined_pdf(data, barcode_type, output_dir, prefix), on lists long
\* enough to fill more than one page, with a symbology name of the registry or not.
InitCombined ==
    /\ HAS_PDF_SUPPORT \in BOOLEAN
    /\ data \in {Repeat(<<T_A1, T_B2, T_C3>>, n) : n \in 1..MaxCombinedItems}
    /\ barcode_type \in {"Code128", "Bogus"}
    /\ output_format = "PDF (Combined)"
    /\ prefix = P_x
    /\ pc = "combined"
    /\ files = {}
    /\ Fresh
    /\ Quiet

NextCombined ==
    \/ CombinedBegin
    \/ CombinedItem
    \/ CombinedSave
    \/ BatchResults

SpecCombined == InitCombined /\ [][NextCombined]_vars

\* The filename derivation of lines 659-660 on its own: for a prefix and two texts, the
\* names derived at two increasing loop indices, among them indices where the number
\* gets one digit longer.
NameAlphabet == {"0", "_", " ", "/"}
Strings(A, n) == UNION {[1..k -> A] : k \in 0..n}
NamePrefixes == {<<>>, <<"1">>, <<"/", " ">>}
IndexSamples == {0, 8, 9, 9998, 9999}

InitNames ==
    /\ HAS_PDF_SUPPORT = FALSE
    /\ data \in {<<t1, t2>> : t1, t2 \in Strings(NameAlphabet, MaxNameLen)}
    /\ barcode_type = "Code128"
    /\ output_format = "PNG"
    /\ prefix \in NamePrefixes
    /\ pc = "naming"
    /\ files = {}
    /\ Fresh
    /\ Quiet

NameItem ==
    /\ pc = "naming"
    /\ Len(calls) < Len(data)
    /\ \E j \in IndexSamples :
         /\ j >= i
         /\ LET text == data[Len(calls) + 1]
            IN  calls' = Append(calls, [index |-> j, text |-> text,
                                       filename |-> BatchFilename(prefix, j, text),
                                       format |-> output_format, fp |-> "none"])
         /\ i' = j + 1
    /\ UNCHANGED <<inputs, pc, successful, failed_items, progress, files, temps,
                   success, page, draws, iters>>

SpecNames == InitNames /\ [][NameItem]_vars

\* Generate calls on the single-item side: the Generate button of the first tab, and the
\* two generators called directly.
InitSingle ==
    /\ HAS_PDF_SUPPORT \in BOOLEAN
    /\ data = <<>>
    /\ barcode_type = "Code128"
    /\ output_format \in SingleFormats(HAS_PDF_SUPPORT)
    /\ prefix = <<>>
    /\ pc = "idle"
    /\ files = {}
    /\ Fresh
    /\ output_dir_ok \in BOOLEAN
    /\ file_path = ""
    /\ source = 0
    /\ column_index = -1
    /\ input_file = <<>>
    /\ text_ctrl \in TextInputs
    /\ clock \in 0..MaxClock
    /\ settings = InitialSettings
    /\ settings_file = NoSettingsFile

NextSingle ==
    \/ OnGenerateSingle
    \/ GenerateBarcodeCall
    \/ LogicGenerateBarcodeCall

SpecSingle == InitSingle /\ [][NextSingle]_vars

\* The settings operations over several runs of the program, from a first start
\* without a settings file.
InitSettings ==
    /\ HAS_PDF_SUPPORT = TRUE
    /\ data = <<>>
    /\ barcode_type = "Code128"
    /\ output_format = "PNG"
    /\ prefix = <<>>
    /\ pc = "idle"
    /\ files = {}
    /\ Fresh
    /\ Quiet

NextSettings ==
    \/ OnSaveSettings
    \/ OnResetSettings
    \/ OnExit
    \/ Startup

SpecSettings == InitSettings /\ [][NextSettings]_vars

\* One press of the batch button, from the input file on.
InitFile ==
    /\ HAS_PDF_SUPPORT = TRUE
    /\ data = <<>>
    /\ barcode_type = "Code128"
    /\ output_format \in {"PNG", "PDF (Individual)", "PDF (Combined)"}
    /\ prefix = P_x
    /\ pc = "reading"
    /\ files = {}
    /\ Fresh
    /\ output_dir_ok \in BOOLEAN
    /\ file_path \in {"", "missing.txt", "input.txt"}
    /\ source \in {0, 1}
    /\ column_index \in IF source = 0 THEN {-1} ELSE {-1, 0, 1}
    /\ input_file \in IF source = 0 THEN TextFiles ELSE CsvFiles
    /\ text_ctrl = <<>>
    /\ clock = 0
    /\ settings = InitialSettings
    /\ settings_file = NoSettingsFile

NextFile ==
    \/ BatchRead
    \/ Next

SpecFile == InitFile /\ [][NextFile]_vars

\* One press of the batch button for individual output, with the user at the window
\* while it runs.
InitReentrant ==
    /\ HAS_PDF_SUPPORT = TRUE
    /\ data \in {Repeat(<<T_A1, T_B2, T_C3>>, n) : n \in 1..MaxItems}
    /\ barcode_type = "Code128"
    /\ output_format \in {"PNG", "PDF (Individual)"}
    /\ prefix = P_x
    /\ pc = "idle"
    /\ files = {}
    /\ Fresh
    /\ Quiet

NextReentrant ==
    \/ BatchStart
    \/ BatchItem
    \/ BatchResults
    \/ InsideYield /\ OnSaveSettings
    \/ InsideYield /\ OnResetSettings
    \/ NestedBatchPress

SpecReentrant == InitReentrant /\ [][NextReentrant]_vars

(* ------------------------------- claims ------------------------------- *)

\* the branch of on_generate_batch a run takes
CombinedMode == output_format = "PDF (Combined)" /\ HAS_PDF_SUPPORT
IndividualMode == ~CombinedMode

\* C1: when a batch run has completed, success_count + len(failed_items) = len(items),
\* whatever the output format.
C1_CountsAddUp ==
    pc = "done" => successful + Len(failed_items) = Len(data)

\* the calls that raised, as the entries they leave in failed_items
CallRaised(c) == c.fp # "none"
FailedRecords(cs) ==
    LET bad == SelectSeq(cs, CallRaised)
    IN  [k \in 1..Len(bad) |-> <<bad[k].text, bad[k].fp>>]

\* C2: in individual-output mode the k-th generation call is for the k-th item, a run
\* that has ended has attempted every item exactly once, and each failure is recorded
\* against its item, in order, without stopping the run.
C2_EveryItemInOrder ==
    /\ \A k \in 1..Len(calls) : calls[k].index = k - 1 /\ calls[k].text = data[k]
    /\ (IndividualMode /\ pc = "loop") => Len(calls) = i
    /\ (IndividualMode /\ data # <<>> /\ pc \notin {"idle", "loop"}) =>
           /\ pc = "done"
           /\ Len(calls) = Len(data)
    /\ IndividualMode => failed_items = FailedRecords(calls)

\* C2 witness: the first item failed, and the third was still attempted and succeeded
C2_Witness ==
    /\ pc = "done"
    /\ Len(calls) = 3
    /\ calls[1].fp = "encode"
    /\ calls[3].fp = "none"
    /\ successful = 2

\* C5: no step of an individual-output run removes a file from the output directory.
C5_NoRollback == [][files \subseteq files']_vars

\* C5 witness: the first item's file is on disk after the second and third items failed
C5_Witness ==
    /\ pc = "done"
    /\ Len(calls) = 3
    /\ calls[1].fp = "none"
    /\ calls[2].fp = "encode"
    /\ calls[3].fp = "write"
    /\ (calls[1].filename \o EXT_PNG) \in files

\* C6: a combined-document run ends with failed_items empty and success_count equal to
\* len(items) when the assembler returned True and to 0 when it returned False.
C6_AllOrNothing ==
    (pc = "done" /\ CombinedMode) =>
        /\ success \in {"True", "False"}
        /\ failed_items = <<>>
        /\ successful = (IF success = "True" THEN Len(data) ELSE 0)

\* C6 witness: the assembler returned True although it skipped an item
C6_Witness ==
    /\ pc = "done"
    /\ CombinedMode
    /\ success = "True"
    /\ Len(data) = 3
    /\ Len(draws) = 2
    /\ successful = 3

\* C3: the filenames derived in one run (one prefix) for two distinct indices differ,
\* whatever the texts.
C3_NamesInjective ==
    \A k1, k2 \in 1..Len(calls) :
        calls[k1].index # calls[k2].index => calls[k1].filename # calls[k2].filename

\* C3 witness: two different texts that sanitize to the same string, named at the
\* indices 9999 and 10000 (1-based)
C3_Witness ==
    /\ Len(calls) = 2
    /\ calls[1].text # calls[2].text
    /\ sanitize(calls[1].text) = sanitize(calls[2].text)
    /\ calls[1].index = 9998
    /\ calls[2].index = 9999

\* The stem as the claim words it, written out independently of the model's operators.
C4_KeptChars ==
    {"A", "B", "C", "a", "b", "p", "x", "0", "1", "2", "3", "4", "5", "6", "7", "8", "9",
     " ", "-", "_"}
RECURSIVE C4_Filter(_)
C4_Filter(s) ==
    IF s = <<>> THEN <<>>
    ELSE (IF Head(s) \in C4_KeptChars THEN <<Head(s)>> ELSE <<>>) \o C4_Filter(Tail(s))
C4_Pad4(n) ==
    <<DigitChar((n \div 1000) % 10), DigitChar((n \div 100) % 10),
      DigitChar((n \div 10) % 10), DigitChar(n % 10)>>
C4_First20(t) == [k \in 1..(IF Len(t) > 20 THEN 20 ELSE Len(t)) |-> t[k]]
C4_Stem(pre, n, text) == C4_Filter(pre \o C4_Pad4(n) \o <<"_">> \o C4_First20(text))
RECURSIVE C4_DropTrailingSpaces(_)
C4_DropTrailingSpaces(s) ==
    IF s # <<>> /\ s[Len(s)] = " " THEN C4_DropTrailingSpaces([k \in 1..(Len(s) - 1) |-> s[k]])
    ELSE s
C4_Ext(fmt) ==
    CASE fmt = "SVG" -> <<".", "s", "v", "g">>
      [] fmt = "PDF" -> <<".", "p", "d", "f">>
      [] OTHER -> <<".", "p", "n", "g">>

\* the scenario of the claim: ["A1","B2","C3"], prefix "x_", PNG, no item failing
C4_ScenarioDone ==
    /\ pc = "done"
    /\ data = <<T_A1, T_B2, T_C3>>
    /\ prefix = <<"x", "_">>
    /\ output_format = "PNG"
    /\ \A k \in 1..Len(calls) : calls[k].fp = "none"
C4_ScenarioResult ==
    /\ files = {<<"x", "_", "0", "0", "0", "1", "_", "A", "1", ".", "p", "n", "g">>,
                <<"x", "_", "0", "0", "0", "2", "_", "B", "2", ".", "p", "n", "g">>,
                <<"x", "_", "0", "0", "0", "3", "_", "C", "3", ".", "p", "n", "g">>}
    /\ successful = 3
    /\ failed_items = <<>>

C7_FalseLeavesNoFile ==
    /\ success = "True" => CombinedPdfName(prefix) \in files
    /\ success = "False" => CombinedPdfName(prefix) \notin files

\* C8: showPage() follows item k (0-based) exactly when (k+1) mod items_per_page = 0 and
\* k is not the last item, whatever items failed; so two items of different blocks of
\* items_per_page indices are never drawn on the same page.
C8_NewPageExactlyAtBlockEnd ==
    /\ \A k \in 1..Len(iters) :
          iters[k].turned <=> (k % barcodes_per_page = 0 /\ k < Len(data))
    /\ \A d1, d2 \in 1..Len(draws) :
          (draws[d1].index \div barcodes_per_page) # (draws[d2].index \div barcodes_per_page)
              => draws[d1].page # draws[d2].page

\* C9: the items at index k and k + items_per_page are drawn at the same (x, y), on
\* different pages.
C9_SameSlotOnAnotherPage ==
    \A d1, d2 \in 1..Len(draws) :
        draws[d2].index = draws[d1].index + barcodes_per_page =>
            /\ draws[d1].x = draws[d2].x
            /\ draws[d1].y = draws[d2].y
            /\ draws[d1].page # draws[d2].page

\* the slot of the global index k, from the layout rule of the specification
C10_Slot(k) == k % barcodes_per_page
C10_SlotX(k) == 72 * 127 + (C10_Slot(k) % barcodes_per_row) * (270 * 127)
C10_SlotY(k) == page_height - 72 * 127 - ((C10_Slot(k) \div barcodes_per_row) + 1) * (100 * 127)

\* C10: an item whose encoding fails is not drawn and the loop goes on to the last item;
\* every item that is drawn is drawn once, at the slot of its own index, so the slot of
\* a skipped item is not taken by the next item.
C10_SkippedItemLeavesGap ==
    /\ pc = "combining" => Len(iters) = i
    /\ (success # "unset" /\ HAS_PDF_SUPPORT /\ barcode_type \in barcode_types)
           => Len(iters) = Len(data)
    /\ \A k \in 1..Len(iters) :
          Cardinality({d \in 1..Len(draws) : draws[d].index = k - 1})
              = (IF iters[k].fp = "before_draw" THEN 0 ELSE 1)
    /\ \A d \in 1..Len(draws) :
          /\ draws[d].x = C10_SlotX(draws[d].index)
          /\ draws[d].y = C10_SlotY(draws[d].index)

\* C10 witness: the first item was skipped, the second sits in the second slot, the
\* document was saved
C10_Witness ==
    /\ success = "True"
    /\ Len(data) >= 2
    /\ iters[1].fp = "before_draw"
    /\ draws # <<>>
    /\ draws[1].index = 1
    /\ draws[1].y = page_height - 72 * 127 - 2 * (100 * 127)

(* ------------------------ single-item contract ------------------------ *)

Called == {calls[k] : k \in 1..Len(calls)}

\* the final output file of a call: dir/filename.ext for the requested format
RequestedPath(c) ==
    c.filename \o (IF c.format = "PDF" THEN EXT_PDF
                   ELSE IF c.format = "SVG" THEN EXT_SVG ELSE EXT_PNG)

\* the format of the call is one the installation can write
FormatAvailable(c) == c.format = "PDF" => c.support

\* C11: a generate call for an available format that succeeds has written exactly the
\* final file of that format, and one that raises leaves the directory as it was: no
\* file is at the output path that was not there before.
C11_OneFileOrNone ==
    \A c \in Called :
        FormatAvailable(c) =>
            /\ ~c.raised => c.after = c.before \cup {RequestedPath(c)}
            /\ c.raised => c.after = c.before

\* C12: after a generate call for PDF output, whether it returned or raised, the
\* temporary image does not exist.
C12_TempImageDeleted ==
    \A c \in Called : c.format = "PDF" => TEMP_BARCODE \notin c.temps

\* C13: a generate call with an empty text or with a symbology name that is not a key
\* of the registry raises and writes no file.
C13_InvalidInputRejected ==
    \A c \in Called :
        (c.text = <<>> \/ c.type \notin (IF c.module = "logic" THEN logic_barcode_types
                                                               ELSE barcode_types))
            => c.raised /\ c.after = c.before

\* C14: a generate call for PDF output without the document library raises and writes
\* no file of any format.
C14_PdfWithoutLibraryRaises ==
    \A c \in Called :
        (c.format = "PDF" /\ ~c.support) => c.raised /\ c.after = c.before

(* ------------------------------ settings ------------------------------ *)

\* C15: saving the settings and loading them on a fresh start gives back the settings
\* that were saved, with the same keys and the same values.
C15_SaveLoadRoundTrip ==
    load_settings(InitialSettings, save_settings(settings)) = settings

(* --------------------------- batch input ------------------------------ *)

\* the input file has been read into data
ReadDone == pc \notin {"reading", "aborted"}

\* a line without its line end
Chomp(line) ==
    IF line # <<>> /\ line[Len(line)] = "\n" THEN SubSeq(line, 1, Len(line) - 1) ELSE line

\* the entries of the input file, in file order: the lines, or the cells of the selected
\* column in the rows after the header that have such a cell
Entries ==
    IF source = 0
    THEN [k \in 1..Len(input_file) |-> Chomp(input_file[k])]
    ELSE LET rows == Tail(input_file)
             has == {k \in 1..Len(rows) : Len(rows[k]) > column_index}
             nth[j \in 0..Cardinality(has)] ==
                 IF j = 0 THEN 0 ELSE CHOOSE k \in has : k > nth[j - 1] /\
                                         \A l \in has : l > nth[j - 1] => k <= l
         IN  [j \in 1..Cardinality(has) |-> rows[nth[j]][column_index + 1]]

Blank(e) == \A k \in 1..Len(e) : e[k] \in Whitespace

\* data is made of the non-blank entries, in their order, each passed through f
IsNonBlankEntriesBy(f(_)) ==
    LET keep == {k \in 1..Len(Entries) : ~Blank(Entries[k])} IN
    /\ Len(data) = Cardinality(keep)
    /\ \A j \in 1..Len(data) :
         \E k \in keep : /\ Cardinality({l \in keep : l < k}) = j - 1
                          /\ data[j] = f(Entries[k])

Same(e) == e

\* C16 as stated: the records are the non-blank entries themselves, in file order,
\* and none is empty.
C16_RecordsAreEntries ==
    ReadDone => IsNonBlankEntriesBy(Same) /\ \A j \in 1..Len(data) : data[j] # <<>>

\* C16: the records are the non-blank entries in file order, each with its leading and
\* trailing whitespace removed; the header row gives no record, a blank or missing
\* cell gives none, and no record is empty.
C16_RecordsAreStrippedEntries ==
    ReadDone => IsNonBlankEntriesBy(strip) /\ \A j \in 1..Len(data) : data[j] # <<>>

\* the scenario of the claim was read, and an entry with blanks around it
C16_Witness ==
    \/ /\ ReadDone /\ source = 1 /\ column_index = 1
       /\ input_file = <<Header, R_a1, R_b, R_c2>>
       /\ data = <<<<"1">>, <<"2">>>>
    \/ /\ ReadDone /\ source = 0
       /\ input_file = <<L_padded, L_blank, L_C3>>
       /\ data = <<T_A1, T_C3>>

\* a bad output directory, an empty input list, or no column selected for CSV input
SetupError ==
    \/ ~output_dir_ok
    \/ source = 1 /\ column_index = -1
    \/ file_path \notin ReadableFiles
    \/ (IF source = 0 THEN ReadLines(input_file)
        ELSE IF input_file = <<>> THEN <<>> ELSE ReadCsv(input_file, column_index)) = <<>>

\* C17: with a setup error the run is aborted before any item is attempted and gives
\* no aggregate result; without one it is never aborted, and it ends only after every
\* item was attempted.
C17_AbortsExactlyOnSetupError ==
    /\ SetupError => calls = <<>> /\ draws = <<>> /\ iters = <<>> /\ pc # "done"
    /\ pc = "aborted" => SetupError
    /\ pc = "done" /\ IndividualMode => Len(calls) = Len(data)

(* ----------------------------- re-entrancy ---------------------------- *)

\* C18: while a batch run is between its first and its last item no other handler
\* touches the settings or the progress counter: every item of the run is generated
\* under the same settings, and the counter holds what the run itself wrote last.
C18_OneFlowAtATime ==
    /\ \A j, k \in 1..Len(calls) : calls[j].options = calls[k].options
    /\ pc = "loop" => progress = i

(* ------------------------------ file names ---------------------------- *)

\* a file name without its extension of four characters
Stem(f) == SubSeq(f, 1, Len(f) - 4)

\* C19: the stem of every file the generators produce contains only alphanumerics,
\* space, dash and underscore, whatever the texts and the prefix.
C19_StemsAreSanitized ==
    \A f \in files : \A k \in 1..Len(Stem(f)) : KeepChar(Stem(f)[k])

(* ------------------------------ progress ------------------------------ *)

\* C20: in an individual-output run the progress counter equals the number of items
\* processed so far, whether they succeeded or failed, and len(items) when the run
\* has completed.
C20_ProgressIsItemCount ==
    IndividualMode =>
        /\ pc = "loop" => progress = Len(calls)
        /\ pc = "done" => progress = Len(data)

(* --------------------------- layout on the page ----------------------- *)

\* the box of a drawImage call lies inside the margins of 72 points of the page
C21_InsideMargins(d) ==
    /\ 72 * 127 <= d.x
    /\ d.x + 250 * 127 <= page_width - 72 * 127
    /\ 72 * 127 <= d.y
    /\ d.y + 80 * 127 <= page_height - 72 * 127

\* two boxes of 250 by 80 points have no inner point in common
C21_Disjoint(d, e) ==
    \/ d.x + 250 * 127 <= e.x
    \/ e.x + 250 * 127 <= d.x
    \/ d.y + 80 * 127 <= e.y
    \/ e.y + 80 * 127 <= d.y

\* C21: the box [x, x+250] x [y, y+80] of every item drawn lies inside the margins of
\* the A4 page, and the boxes of two distinct indices with the same page number
\* (index div items per page) do not overlap.
C21_BoxesInsideMarginsAndDisjoint ==
    /\ \A d \in 1..Len(draws) : C21_InsideMargins(draws[d])
    /\ \A d, e \in 1..Len(draws) :
          (/\ draws[d].index # draws[e].index
           /\ draws[d].index \div barcodes_per_page = draws[e].index \div barcodes_per_page)
              => C21_Disjoint(draws[d], draws[e])

\* C21 witness: seven items were drawn, the six of the first page down to its last row
\* and the first of the second page
C21_Witness ==
    /\ Len(draws) = 7
    /\ draws[1].index = 0
    /\ draws[6].index = 5
    /\ draws[6].y = page_height - 72 * 127 - 6 * (100 * 127)
    /\ draws[7].index = 6

====
